---- MODULE Spec2Model ----
(***************************************************************************)
(* The session-gated admin dashboard of the RSVP application (AdminPage,   *)
(* src/unnamed/part_002): the session effect (checkSession and the         *)
(* onAuthStateChange subscription), fetchEvents, fetchRSVPs, the refresh   *)
(* button and the render guards; the admin RSVP detail page                *)
(* (EventDetailsPage, src/pages/admin/events/[eventId].tsx).               *)
(*                                                                         *)
(* Each component has a specification of its own; the variables of the     *)
(* components a specification does not model keep the value NotModelled.   *)
(*                                                                         *)
(* One step of the model is one run-to-completion callback of the single   *)
(* threaded event loop: a promise continuation up to its next await, an    *)
(* auth notification, a click, an effect (re)run or the unmount.           *)
(***************************************************************************)
EXTENDS Integers, Sequences, FiniteSets, TLC

\* Bounds of the exploration.
MaxRuns == 2      \* runs of the session effect (first run at mount + re-runs)
MaxRefresh == 1   \* refresh-button handlers suspended at the same time

Runs == 1..MaxRuns

\* useState<User | null>(null): the cached user, or null.
NoUser == "null"
Users == {"u1", "u2"}

\* Events of onAuthStateChange(event, session).  SIGNED_OUT is always
\* delivered with a null session; every other event ("OTHER": SIGNED_IN,
\* TOKEN_REFRESHED, USER_UPDATED, INITIAL_SESSION) carries the session
\* or null.
Notifications ==
    {[event |-> "SIGNED_OUT", session |-> NoUser]}
    \cup {[event |-> "OTHER", session |-> s] : s \in Users \cup {NoUser}}

\* No notification.
NoNotif == [event |-> "NONE", session |-> NoUser]

\* Rows a select("*") can return.
EventRows == {<<1, 2>>}
RsvpRows == {<<1>>}

\* { data, error } of a select: an error with null data, or no error with
\* rows or null.
SelectResults(rows) ==
    {[error |-> TRUE, hasData |-> FALSE, rows |-> <<>>],
     [error |-> FALSE, hasData |-> FALSE, rows |-> <<>>]}
    \cup {[error |-> FALSE, hasData |-> TRUE, rows |-> d] : d \in rows}

\* data || []
OrEmpty(res) == IF res.hasData THEN res.rows ELSE <<>>

VARIABLES
    mounted,        \* the AdminPage instance is mounted
    run,            \* number of the current run of the session effect
    checkSession,   \* per effect run: where its checkSession() is
    confirmed,      \* some getSession() has resolved with a session
    subscription,   \* per effect run: its auth subscription is active
    user,           \* useState user
    events,         \* useState events
    rsvps,          \* useState rsvps
    loading,        \* useState loading
    redirected,     \* router.replace('/') has been called
    refresh,        \* refresh-button handlers suspended in fetchEvents()
    last,           \* the last callback: its notification, the session it
                    \* got from getSession(), the calls it made
    stale,          \* fetches that were in flight when SIGNED_OUT arrived
    eventsStale,    \* events holds the rows of such a fetch
    rsvpsStale,     \* rsvps holds the rows of such a fetch
    session,        \* the Session Store: the signed-in user, or null
    EventDetailsPage, \* the state of the admin RSVP detail page
    clock,          \* the instant new Date() yields
    activeTab,      \* useState activeTab
    sortBy,         \* useState sortBy
    sortOrder,      \* useState sortOrder
    searchQuery,    \* useState searchQuery
    currentPage,    \* useState currentPage
    rendered,       \* what the last commit of the event list displays
    pending,        \* the work React has scheduled: "render", "effect"
    newEvent,       \* useState newEvent
    dateTimeError,  \* useState dateTimeError
    showCreateDialog, \* useState showCreateDialog
    inserting,      \* handleSubmit calls suspended in the events insert
    showSuccess,    \* useState showSuccess
    table,          \* the Repository: the number of rows of the events table
    fetching,       \* fetchEvents() calls suspended in the events select
    EventPage,      \* the state of the public RSVP page
    Login           \* the state of the login page

\* The state of the session effect of AdminPage, without events and last.
sessionVars == <<mounted, run, checkSession, confirmed, subscription, user,
                 rsvps, loading, redirected, refresh, stale, eventsStale,
                 rsvpsStale>>

\* The state of the admin RSVP detail page and of the Session Store.
detailVars == <<session, EventDetailsPage>>

\* The state of the event list of AdminPage, without events and clock.
listVars == <<activeTab, sortBy, sortOrder, searchQuery, currentPage, rendered,
              pending>>

\* The state of the create-event dialog of AdminPage, without clock.
createVars == <<newEvent, dateTimeError, showCreateDialog, inserting,
                showSuccess, table, fetching>>

\* The state outside the session effect of AdminPage.
otherVars == <<detailVars, clock, listVars, createVars, EventPage, Login>>

vars == <<sessionVars, events, last, otherVars>>

\* The calls a callback makes to the router, the console and the Repository.
Replace == "router.replace('/')"
ErrorSession == "console.error('Error checking session:')"
ErrorEvents == "console.error('Error fetching events:')"
SelectEvents == "from('events').select('*')"
SelectRsvps == "from('rsvps').select('*')"

\* The record of a callback that made the calls c.
Did(c) == [notif |-> NoNotif, session |-> NoUser, called |-> c]

\* A state update of a function component: applied while the component is
\* mounted, dropped by React afterwards.
SetState(cur, new) == IF mounted THEN new ELSE cur

\* The render guards: spinner while loading, nothing without a user, the
\* dashboard otherwise.
View ==
    IF ~mounted THEN "unmounted"
    ELSE IF loading THEN "loading"
    ELSE IF user = NoUser THEN "nothing"
    ELSE "dashboard"

\* Fetches whose select is issued and not resolved.
RunFetches == {<<"run", r>> : r \in {q \in Runs : checkSession[q] \in {"fetchEvents", "fetchRSVPs"}}}
RefreshFetches == {<<"refresh", k>> : k \in refresh}
InFlight == RunFetches \cup RefreshFetches

\* The value of a variable in a specification that does not model its
\* component.
NotModelled == "not modelled"

\* The detail page is not modelled.
DetailNotModelled ==
    /\ session = NotModelled
    /\ EventDetailsPage = NotModelled

\* The session effect of AdminPage is not modelled.
SessionNotModelled ==
    /\ mounted = NotModelled
    /\ run = NotModelled
    /\ checkSession = NotModelled
    /\ confirmed = NotModelled
    /\ subscription = NotModelled
    /\ user = NotModelled
    /\ rsvps = NotModelled
    /\ loading = NotModelled
    /\ redirected = NotModelled
    /\ refresh = NotModelled
    /\ stale = NotModelled
    /\ eventsStale = NotModelled
    /\ rsvpsStale = NotModelled

\* The event list of AdminPage is not modelled.
ListNotModelled ==
    /\ activeTab = NotModelled
    /\ sortBy = NotModelled
    /\ sortOrder = NotModelled
    /\ searchQuery = NotModelled
    /\ currentPage = NotModelled
    /\ rendered = NotModelled
    /\ pending = NotModelled

\* The create-event dialog of AdminPage is not modelled.
CreateNotModelled ==
    /\ newEvent = NotModelled
    /\ dateTimeError = NotModelled
    /\ showCreateDialog = NotModelled
    /\ inserting = NotModelled
    /\ showSuccess = NotModelled
    /\ table = NotModelled
    /\ fetching = NotModelled

\* The components outside the session effect of AdminPage are not modelled.
OtherInit ==
    /\ DetailNotModelled
    /\ clock = NotModelled
    /\ ListNotModelled
    /\ CreateNotModelled
    /\ EventPage = NotModelled
    /\ Login = NotModelled

\* The state after the mount: the first run of the session effect has
\* called checkSession(), suspended in getSession(), and has subscribed.
Init ==
    /\ mounted = TRUE
    /\ run = 1
    /\ checkSession = [r \in Runs |-> IF r = 1 THEN "getSession" ELSE "idle"]
    /\ confirmed = FALSE
    /\ subscription = [r \in Runs |-> r = 1]
    /\ user = NoUser
    /\ events = <<>>
    /\ rsvps = <<>>
    /\ loading = TRUE
    /\ redirected = FALSE
    /\ refresh = {}
    /\ last = Did({})
    /\ stale = {}
    /\ eventsStale = FALSE
    /\ rsvpsStale = FALSE
    /\ OtherInit

\* fetchEvents() after its await: log the error or store the rows.
fetchEventsResolve(res, tag) ==
    /\ IF res.error
          THEN UNCHANGED <<events, eventsStale>>
          ELSE /\ events' = SetState(events, OrEmpty(res))
               /\ eventsStale' = SetState(eventsStale, tag \in stale)
    /\ stale' = stale \ {tag}

\* checkSession(): getSession() resolved without a session; redirect and
\* return.
CheckSessionNoSession(r) ==
    /\ checkSession[r] = "getSession"
    /\ checkSession' = [checkSession EXCEPT ![r] = "noSession"]
    /\ redirected' = TRUE
    /\ last' = Did({Replace})
    /\ UNCHANGED <<mounted, run, confirmed, subscription, user, events, rsvps,
                   loading, refresh, stale, eventsStale, rsvpsStale>>
    /\ UNCHANGED otherVars

\* checkSession(): getSession() rejected; the catch logs and redirects.
CheckSessionThrows(r) ==
    /\ checkSession[r] = "getSession"
    /\ checkSession' = [checkSession EXCEPT ![r] = "failed"]
    /\ redirected' = TRUE
    /\ last' = Did({ErrorSession, Replace})
    /\ UNCHANGED <<mounted, run, confirmed, subscription, user, events, rsvps,
                   loading, refresh, stale, eventsStale, rsvpsStale>>
    /\ UNCHANGED otherVars

\* CheckSessionOk without its setUser(session.user).
CheckSessionOkNoUser(r, u) ==
    /\ checkSession[r] = "getSession"
    /\ checkSession' = [checkSession EXCEPT ![r] = "fetchEvents"]
    /\ confirmed' = TRUE
    /\ loading' = SetState(loading, TRUE)
    /\ last' = [Did({SelectEvents}) EXCEPT !.session = u]
    /\ UNCHANGED <<mounted, run, subscription, user, events, rsvps, redirected,
                   refresh, stale, eventsStale, rsvpsStale>>
    /\ UNCHANGED otherVars

\* checkSession(): getSession() resolved with a session; setUser, then
\* fetchEvents() runs up to its await (setLoading(true), select issued).
CheckSessionOk(r, u) ==
    /\ checkSession[r] = "getSession"
    /\ checkSession' = [checkSession EXCEPT ![r] = "fetchEvents"]
    /\ confirmed' = TRUE
    /\ user' = SetState(user, u)
    /\ loading' = SetState(loading, TRUE)
    /\ last' = [Did({SelectEvents}) EXCEPT !.session = u]
    /\ UNCHANGED <<mounted, run, subscription, events, rsvps, redirected,
                   refresh, stale, eventsStale, rsvpsStale>>
    /\ UNCHANGED otherVars

\* checkSession(): the events select resolved; fetchEvents() finishes with
\* setLoading(false) and fetchRSVPs() runs up to its await.
CheckSessionEvents(r, res) ==
    /\ checkSession[r] = "fetchEvents"
    /\ fetchEventsResolve(res, <<"run", r>>)
    /\ loading' = SetState(loading, FALSE)
    /\ checkSession' = [checkSession EXCEPT ![r] = "fetchRSVPs"]
    /\ last' = Did((IF res.error THEN {ErrorEvents} ELSE {}) \cup {SelectRsvps})
    /\ UNCHANGED <<mounted, run, confirmed, subscription, user, rsvps,
                   redirected, refresh, rsvpsStale>>
    /\ UNCHANGED otherVars

\* checkSession(): the rsvps select resolved; fetchRSVPs() stores the rows
\* unless there was an error, then setLoading(false).
CheckSessionRsvps(r, res) ==
    /\ checkSession[r] = "fetchRSVPs"
    /\ IF res.error
          THEN UNCHANGED <<rsvps, rsvpsStale>>
          ELSE /\ rsvps' = SetState(rsvps, OrEmpty(res))
               /\ rsvpsStale' = SetState(rsvpsStale, <<"run", r>> \in stale)
    /\ stale' = stale \ {<<"run", r>>}
    /\ loading' = SetState(loading, FALSE)
    /\ checkSession' = [checkSession EXCEPT ![r] = "done"]
    /\ last' = Did({})
    /\ UNCHANGED <<mounted, run, confirmed, subscription, user, events,
                   redirected, refresh, eventsStale>>
    /\ UNCHANGED otherVars

\* onAuthStateChange whose session branch also starts a fetchEvents()
\* (setLoading(true), select issued).
onAuthStateChangeRefetch(n) ==
    /\ IF n.event = "SIGNED_OUT"
          THEN /\ redirected' = TRUE
               /\ last' = [Did({Replace}) EXCEPT !.notif = n]
               /\ UNCHANGED <<user, loading>>
          ELSE IF n.session # NoUser
                  THEN /\ user' = SetState(user, n.session)
                       /\ loading' = SetState(loading, TRUE)
                       /\ last' = [Did({SelectEvents}) EXCEPT !.notif = n]
                       /\ UNCHANGED redirected
                  ELSE /\ last' = [Did({}) EXCEPT !.notif = n]
                       /\ UNCHANGED <<user, redirected, loading>>
    /\ UNCHANGED <<events, rsvps, checkSession, confirmed, refresh,
                   eventsStale, rsvpsStale>>

\* The onAuthStateChange callback.
onAuthStateChange(n) ==
    /\ IF n.event = "SIGNED_OUT"
          THEN /\ redirected' = TRUE
               /\ last' = [Did({Replace}) EXCEPT !.notif = n]
               /\ UNCHANGED user
          ELSE IF n.session # NoUser
                  THEN /\ user' = SetState(user, n.session)
                       /\ last' = [Did({}) EXCEPT !.notif = n]
                       /\ UNCHANGED redirected
                  ELSE /\ last' = [Did({}) EXCEPT !.notif = n]
                       /\ UNCHANGED <<user, redirected>>
    /\ UNCHANGED <<events, rsvps, loading, checkSession, confirmed, refresh,
                   eventsStale, rsvpsStale>>

\* The Session Store delivers a notification to the active subscription.
\* A SIGNED_OUT marks the fetches in flight.
Notify(n) ==
    /\ \E r \in Runs : subscription[r]
    /\ onAuthStateChange(n)
    /\ stale' = IF n.event = "SIGNED_OUT" THEN stale \cup InFlight ELSE stale
    /\ UNCHANGED <<mounted, run, subscription>>
    /\ UNCHANGED otherVars

\* A cleanup that leaves the subscription active.
CleanupLeak == subscription

\* The cleanup of the session effect: subscription.unsubscribe().
Cleanup == [subscription EXCEPT ![run] = FALSE]

\* The session effect runs again because its dependency [router] changed
\* (useRouter() yields a new object after every route change that keeps the
\* page mounted, e.g. the sidebar link to /admin of AdminLayout pressed on
\* /admin): cleanup of the previous run, then checkSession() and a new
\* subscription.  The checkSession() of the previous run is not cancelled.
EffectRerun ==
    /\ mounted
    /\ run < MaxRuns
    /\ run' = run + 1
    /\ subscription' = [Cleanup EXCEPT ![run + 1] = TRUE]
    /\ checkSession' = [checkSession EXCEPT ![run + 1] = "getSession"]
    /\ last' = Did({})
    /\ UNCHANGED <<mounted, confirmed, user, events, rsvps, loading,
                   redirected, refresh, stale, eventsStale, rsvpsStale>>
    /\ UNCHANGED otherVars

\* The page is left (a redirect or any other navigation completes): the
\* component unmounts and the effect's cleanup runs.
Unmount ==
    /\ mounted
    /\ mounted' = FALSE
    /\ subscription' = Cleanup
    /\ last' = Did({})
    /\ UNCHANGED <<run, checkSession, confirmed, user, events, rsvps, loading,
                   redirected, refresh, stale, eventsStale, rsvpsStale>>
    /\ UNCHANGED otherVars

\* The refresh button (rendered with the dashboard): setLoading(true) and
\* fetchEvents() up to its await.
RefreshClick ==
    /\ View = "dashboard"
    /\ Cardinality(refresh) < MaxRefresh
    /\ refresh' = refresh \cup {CHOOSE k \in (1..MaxRefresh) \ refresh :
                                    \A j \in (1..MaxRefresh) \ refresh : k <= j}
    /\ loading' = SetState(loading, TRUE)
    /\ last' = Did({SelectEvents})
    /\ UNCHANGED <<mounted, run, checkSession, confirmed, subscription, user,
                   events, rsvps, redirected, stale, eventsStale, rsvpsStale>>
    /\ UNCHANGED otherVars

\* The refresh button's select resolved: fetchEvents() finishes and the
\* handler's finally does setLoading(false).
RefreshResolve(k, res) ==
    /\ k \in refresh
    /\ refresh' = refresh \ {k}
    /\ fetchEventsResolve(res, <<"refresh", k>>)
    /\ loading' = SetState(loading, FALSE)
    /\ last' = Did(IF res.error THEN {ErrorEvents} ELSE {})
    /\ UNCHANGED <<mounted, run, checkSession, confirmed, subscription, user,
                   rsvps, redirected, rsvpsStale>>
    /\ UNCHANGED otherVars

Next ==
    \/ \E r \in Runs : CheckSessionNoSession(r)
    \/ \E r \in Runs : CheckSessionThrows(r)
    \/ \E r \in Runs, u \in Users : CheckSessionOk(r, u)
    \/ \E r \in Runs, res \in SelectResults(EventRows) : CheckSessionEvents(r, res)
    \/ \E r \in Runs, res \in SelectResults(RsvpRows) : CheckSessionRsvps(r, res)
    \/ \E n \in Notifications : Notify(n)
    \/ EffectRerun
    \/ Unmount
    \/ RefreshClick
    \/ \E k \in 1..MaxRefresh, res \in SelectResults(EventRows) : RefreshResolve(k, res)

Spec == Init /\ [][Next]_vars

TypeOK ==
    /\ mounted \in BOOLEAN
    /\ run \in Runs
    /\ checkSession \in [Runs -> {"idle", "getSession", "fetchEvents", "fetchRSVPs",
                                  "noSession", "failed", "done"}]
    /\ confirmed \in BOOLEAN
    /\ subscription \in [Runs -> BOOLEAN]
    /\ user \in Users \cup {NoUser}
    /\ events \in EventRows \cup {<<>>}
    /\ rsvps \in RsvpRows \cup {<<>>}
    /\ loading \in BOOLEAN
    /\ redirected \in BOOLEAN
    /\ refresh \subseteq 1..MaxRefresh
    /\ last.notif \in Notifications \cup {NoNotif}
    /\ last.session \in Users \cup {NoUser}
    /\ last.called \subseteq {Replace, ErrorSession, ErrorEvents, SelectEvents, SelectRsvps}
    /\ stale \subseteq InFlight
    /\ eventsStale \in BOOLEAN
    /\ rsvpsStale \in BOOLEAN

(***************************************************************************)
(* The Auth Gate.                                                          *)
(***************************************************************************)

\* The checkSession() of the first effect run makes the mount-time query.
MountRun == 1

\* The gate is Authenticated: a user is cached and no redirect was decided.
Authenticated == mounted /\ user # NoUser /\ ~redirected

\* The last callback issued an events or RSVP fetch.
FetchIssued == {SelectEvents, SelectRsvps} \cap last.called # {}

\* C1: once the mount-time getSession has resolved without a session, the
\* dashboard is not rendered and no events/RSVP fetch is issued in any
\* later state of the mount.
C1_NoSessionIsTerminal ==
    [][checkSession[MountRun] = "noSession"
         => (View' # "dashboard" /\ ~FetchIssued')]_vars

\* C2: while Authenticated, every notification with the signed-out event
\* or with an absent session issues a redirect to login.
C2_AbsentSessionRedirects ==
    [][(Authenticated /\ last'.notif # NoNotif
          /\ (last'.notif.event = "SIGNED_OUT" \/ last'.notif.session = NoUser))
         => Replace \in last'.called]_vars

\* C3: once a redirect was decided, the mounted component never renders
\* the dashboard.
C3_NoDashboardAfterRedirect == redirected => View # "dashboard"

\* C4: a failing mount-time getSession redirects and logs, and afterwards
\* the user is never set and the dashboard is never rendered.
C4_SessionErrorFailsClosed ==
    /\ [][(checkSession[MountRun] = "getSession" /\ checkSession'[MountRun] = "failed")
            => {Replace, ErrorSession} \subseteq last'.called]_vars
    /\ [][checkSession[MountRun] = "failed"
            => (user' = user /\ View' # "dashboard")]_vars

\* C5: the rows of a fetch that was in flight when a signed-out
\* notification arrived are never rendered.
C5_SignOutWinsOverFetch ==
    (eventsStale \/ rsvpsStale) => View # "dashboard"

\* C6: after the unmount, a resolving getSession or fetch changes none of
\* user, events, rsvps, loading and issues no redirect.
C6_ResolveAfterUnmountIsNoOp ==
    [][~mounted => (Replace \notin last'.called
                      /\ UNCHANGED <<user, events, rsvps, loading>>)]_vars

\* C7: at most one subscription is active, it is the one of the current
\* effect run, and none is active after the unmount.
C7_SubscriptionCleanup ==
    /\ Cardinality({r \in Runs : subscription[r]}) <= 1
    /\ \A r \in Runs : subscription[r] => (mounted /\ r = run)

\* Unmounted after an effect re-run, a failed session query and a redirect.
C7_Witness ==
    /\ ~mounted
    /\ run > 1
    /\ redirected
    /\ \E r \in Runs : checkSession[r] = "failed"
    /\ \A r \in Runs : ~subscription[r]

\* C8: a getSession that resolves with a session sets the user to the
\* session's user and issues the events fetch; the rsvps fetch is issued
\* when the events fetch has resolved; no fetch is issued or in flight
\* before a session was confirmed.
C8_SessionTriggersInitialFetch ==
    /\ []((InFlight # {} \/ FetchIssued) => confirmed)
    /\ [][last'.session # NoUser
            => /\ mounted => user' = last'.session
               /\ SelectEvents \in last'.called]_vars
    /\ [][\A r \in Runs :
            (checkSession[r] = "fetchEvents" /\ checkSession'[r] # "fetchEvents")
                => (checkSession'[r] = "fetchRSVPs" /\ SelectRsvps \in last'.called)]_vars

\* The mount-time check found a session, its events fetch resolved and its
\* rsvps fetch was issued and is in flight.
C8_Witness ==
    /\ mounted
    /\ confirmed
    /\ user # NoUser
    /\ checkSession[MountRun] = "fetchRSVPs"
    /\ SelectRsvps \in last.called

C10_LoadingUntilInitialLoadDone ==
    (mounted /\ checkSession[MountRun] \in {"getSession", "fetchEvents", "fetchRSVPs"})
        => View = "loading"

(***************************************************************************)
(* The admin RSVP detail page, /admin/events/:eventId (EventDetailsPage).  *)
(***************************************************************************)

\* Concurrent calls of fetchEventAndRSVPs().
MaxDetailFetches == 2

\* The ids of the event rows; router.query.eventId is one of them, or
\* undefined (NoEvent) until the router is ready.
EventIds == {1, 2}
NoEvent == 0

\* The event ids a link can carry: two events of the table and one that the
\* table does not hold.
LinkIds == EventIds \cup {3}

\* The error messages of fetchEventAndRSVPs(), or null.
NoError == "null"
ErrorLoadingEvent == "Error loading event details. Please try again later."
ErrorLoadingRsvps == "Error loading RSVPs. Please try again later."

\* { data, error } of select("*").eq("id", eventId).single(): the row, or an
\* error (no row, several rows, a failed request).  An id that the table
\* does not hold yields the error only.
SingleResults(e) ==
    {[error |-> TRUE, hasData |-> FALSE, rows |-> <<>>]}
        \cup IF e \in EventIds
                THEN {[error |-> FALSE, hasData |-> TRUE, rows |-> <<e>>]}
                ELSE {}

\* A call of fetchEventAndRSVPs(): where it is and the eventId of the
\* render that made it.  Idle: no call.
Idle == [pc |-> "idle", eventId |-> NoEvent]

\* The calls of fetchEventAndRSVPs() to the Repository and the console.
SelectEvent == "from('events').select('*').eq('id', eventId).single()"
SelectEventRsvps == "from('rsvps').select('*').eq('event_id', eventId)"
ErrorEvent == "console.error('Error fetching event:')"
ErrorRsvps == "console.error('Error fetching RSVPs:')"

\* The render guards of EventDetailsPage: spinner, error, not found, or
\* the event with its RSVPs.
DetailView ==
    IF ~EventDetailsPage.mounted THEN "unmounted"
    ELSE IF EventDetailsPage.loading THEN "loading"
    ELSE IF EventDetailsPage.error # NoError THEN "error"
    ELSE IF EventDetailsPage.event = NoEvent THEN "notFound"
    ELSE "details"

\* setState of EventDetailsPage: the fields f replace those of the state
\* while the page is mounted, and are dropped by React afterwards.
DetailSetState(f) ==
    IF EventDetailsPage.mounted
       THEN [k \in DOMAIN EventDetailsPage |->
                IF k \in DOMAIN f THEN f[k] ELSE EventDetailsPage[k]]
       ELSE EventDetailsPage

\* The page is opened, with or without a session: the router is not ready
\* (eventId undefined), so the effect has returned without fetching.
DetailInit ==
    /\ session \in Users \cup {NoUser}
    /\ EventDetailsPage = [mounted |-> TRUE, eventId |-> NoEvent,
                           event |-> NoEvent, rsvps |-> <<>>,
                           loading |-> TRUE, error |-> NoError,
                           fetches |-> [k \in 1..MaxDetailFetches |-> Idle]]
    /\ last = Did({})
    /\ SessionNotModelled
    /\ events = NotModelled
    /\ clock = NotModelled
    /\ ListNotModelled
    /\ CreateNotModelled
    /\ EventPage = NotModelled
    /\ Login = NotModelled

\* The route's eventId becomes e (the router gets ready, or the route
\* changes while the page stays mounted): the effect [eventId] runs
\* fetchEventAndRSVPs() up to its first await (setLoading(true), select of
\* the event issued).
DetailRoute(e) ==
    /\ EventDetailsPage.mounted
    /\ e # EventDetailsPage.eventId
    /\ \E k \in 1..MaxDetailFetches :
        /\ EventDetailsPage.fetches[k] = Idle
        /\ \A j \in 1..(k - 1) : EventDetailsPage.fetches[j] # Idle
        /\ EventDetailsPage' =
               [DetailSetState([eventId |-> e, loading |-> TRUE])
                   EXCEPT !.fetches[k] = [pc |-> "event", eventId |-> e]]
    /\ last' = Did({SelectEvent})
    /\ UNCHANGED <<session, sessionVars, events, clock, listVars, createVars, EventPage, Login>>

\* fetchEventAndRSVPs(): the select of the event resolved.  An error is
\* logged and stored and the call returns through finally
\* (setLoading(false)); otherwise setEvent and the select of the RSVPs is
\* issued.
DetailEventResolve(k, res) ==
    /\ EventDetailsPage.fetches[k].pc = "event"
    /\ res \in SingleResults(EventDetailsPage.fetches[k].eventId)
    /\ IF res.error
          THEN /\ EventDetailsPage' =
                      [DetailSetState([error |-> ErrorLoadingEvent,
                                       loading |-> FALSE])
                          EXCEPT !.fetches[k] = Idle]
               /\ last' = Did({ErrorEvent})
          ELSE /\ EventDetailsPage' =
                      [DetailSetState([event |-> res.rows[1]])
                          EXCEPT !.fetches[k].pc = "rsvps"]
               /\ last' = Did({SelectEventRsvps})
    /\ UNCHANGED <<session, sessionVars, events, clock, listVars, createVars, EventPage, Login>>

\* fetchEventAndRSVPs(): the select of the RSVPs resolved.  An error is
\* logged and stored; otherwise setRsvps(data || []) and setError(null);
\* finally setLoading(false).
DetailRsvpsResolve(k, res) ==
    /\ EventDetailsPage.fetches[k].pc = "rsvps"
    /\ IF res.error
          THEN /\ EventDetailsPage' =
                      [DetailSetState([error |-> ErrorLoadingRsvps,
                                       loading |-> FALSE])
                          EXCEPT !.fetches[k] = Idle]
               /\ last' = Did({ErrorRsvps})
          ELSE /\ EventDetailsPage' =
                      [DetailSetState([rsvps |-> OrEmpty(res),
                                       error |-> NoError,
                                       loading |-> FALSE])
                          EXCEPT !.fetches[k] = Idle]
               /\ last' = Did({})
    /\ UNCHANGED <<session, sessionVars, events, clock, listVars, createVars, EventPage, Login>>

\* The page is left (Back to Events, a sidebar link, the logout button).
DetailUnmount ==
    /\ EventDetailsPage.mounted
    /\ EventDetailsPage' = [EventDetailsPage EXCEPT !.mounted = FALSE]
    /\ last' = Did({})
    /\ UNCHANGED <<session, sessionVars, events, clock, listVars, createVars, EventPage, Login>>

\* The Session Store: a sign-in, a sign-out or an expiry changes the
\* session.
SessionChange(s) ==
    /\ s # session
    /\ session' = s
    /\ last' = Did({})
    /\ UNCHANGED <<EventDetailsPage, sessionVars, events, clock, listVars, createVars, EventPage, Login>>

DetailNext ==
    \/ \E e \in LinkIds : DetailRoute(e)
    \/ \E k \in 1..MaxDetailFetches, e \in LinkIds :
          \E res \in SingleResults(e) : DetailEventResolve(k, res)
    \/ \E k \in 1..MaxDetailFetches, res \in SelectResults(RsvpRows) :
          DetailRsvpsResolve(k, res)
    \/ DetailUnmount
    \/ \E s \in Users \cup {NoUser} : SessionChange(s)

DetailSpec == DetailInit /\ [][DetailNext]_vars

\* C11: with no current session the detail page issues no event or RSVP
\* query and does not come to render the event and its RSVPs; when the
\* route gives it an event to show it redirects to login instead.
C11_DetailIsSessionGated ==
    /\ [][session = NoUser
            => {SelectEvent, SelectEventRsvps} \cap last'.called = {}]_vars
    /\ [][(session = NoUser /\ DetailView # "details")
            => DetailView' # "details"]_vars
    /\ [][(session = NoUser /\ EventDetailsPage'.eventId # EventDetailsPage.eventId)
            => Replace \in last'.called]_vars

\* C23: on the detail page, the select of an event that the table does not
\* hold ends in the "not found" view, and no such select ends in the view
\* that a failed select of an existing event ends in.
C23_NotFoundIsDedicated ==
    [][\A k \in 1..MaxDetailFetches :
          (/\ EventDetailsPage.fetches[k].pc = "event"
           /\ EventDetailsPage.fetches[k].eventId \notin EventIds
           /\ EventDetailsPage'.fetches[k] = Idle
           /\ EventDetailsPage'.mounted)
              => /\ DetailView' = "notFound"
                 /\ EventDetailsPage'.error # ErrorLoadingEvent]_vars

(***************************************************************************)
(* The event list of AdminPage: getFilteredEvents, getPaginatedEvents, the *)
(* tab, search, sort and pagination controls and the tab-change effect     *)
(* (src/unnamed/part_002).                                                 *)
(***************************************************************************)

\* The last instant of the clock.
MaxClock == 3

\* const eventsPerPage = 8
eventsPerPage == 8

\* Strings are sequences of characters.
Lowercase == <<"a", "b", "c", "d", "e", "f", "g", "h", "i", "j", "k", "l", "m",
               "n", "o", "p", "q", "r", "s", "t", "u", "v", "w", "x", "y", "z">>
Uppercase == <<"A", "B", "C", "D", "E", "F", "G", "H", "I", "J", "K", "L", "M",
               "N", "O", "P", "Q", "R", "S", "T", "U", "V", "W", "X", "Y", "Z">>

\* The value of an invalid Date: no number, every comparison with it is
\* false.
NaN == -1

\* new Date(s).getTime() for the date_time strings of the rows: the instant
\* of a well-formed string, NaN for any other.
DateParse(s) ==
    CASE s = "2025-01-01T10:00" -> 1
      [] s = "2025-01-02T10:00" -> 2
      [] s = "2025-01-03T10:00" -> 3
      [] OTHER -> NaN

\* The rows of the events table by id: title, date_time and location.
Gala == <<"G", "a", "l", "a">>
Office == <<"O", "f", "f", "i", "c", "e">>
Party == <<"P", "a", "r", "t", "y">>
Hall == <<"H", "a", "l", "l">>
Gallery == <<"G", "a", "l", "l", "e", "r", "y">>
Park == <<"P", "a", "r", "k">>
Event(id) ==
    CASE id = 1 -> [id |-> 1, title |-> Gala, date_time |-> "2025-01-03T10:00", location |-> Hall]
      [] id = 2 -> [id |-> 2, title |-> Office, date_time |-> "2025-01-01T10:00", location |-> Gallery]
      [] id = 3 -> [id |-> 3, title |-> Gala, date_time |-> "2025-01-02T10:00", location |-> Park]
      [] id = 4 -> [id |-> 4, title |-> Party, date_time |-> "to be announced", location |-> Hall]
      [] id % 2 = 1 -> [id |-> id, title |-> Party, date_time |-> "2025-01-01T10:00", location |-> Park]
      [] OTHER -> [id |-> id, title |-> Party, date_time |-> "2025-01-03T10:00", location |-> Hall]

\* The event lists the dashboard is opened with: every list of at most two
\* of the rows 1..4, these four rows, and lists of more than one and more
\* than two pages.
EventLists ==
    {<<>>, <<4, 3, 2, 1>>, [i \in 1..10 |-> i], [i \in 1..18 |-> i]}
    \cup {<<a>> : a \in 1..4}
    \cup {l \in {<<a, b>> : a, b \in 1..4} : l[1] # l[2]}

\* The search strings typed into the search box.
Queries == {<<>>, <<"g", "a", "l">>, <<"P", "A">>, <<"x">>}

\* String.prototype.toLowerCase, character by character.
ToLowerChar(c) ==
    IF \E i \in 1..Len(Uppercase) : Uppercase[i] = c
       THEN Lowercase[CHOOSE i \in 1..Len(Uppercase) : Uppercase[i] = c]
       ELSE c
toLowerCase(str) == [i \in 1..Len(str) |-> ToLowerChar(str[i])]

\* String.prototype.includes: q occurs in str as a substring.
includes(str, q) ==
    \E i \in 0..(Len(str) - Len(q)) : SubSeq(str, i + 1, i + Len(q)) = q

\* The collation weight of a character: its place in the alphabet, case
\* ignored; any other character sorts first.
Weight(c) ==
    IF \E i \in 1..Len(Lowercase) : Lowercase[i] = ToLowerChar(c)
       THEN CHOOSE i \in 1..Len(Lowercase) : Lowercase[i] = ToLowerChar(c)
       ELSE 0

\* String.prototype.localeCompare: negative, zero or positive.  Alphabetical
\* order with case ignored, a prefix before its extensions; strings that are
\* equal up to case are ordered by their first difference, lower case first.
RECURSIVE CompareFrom(_, _, _, _)
CompareFrom(a, b, i, tie) ==
    IF i > Len(a) /\ i > Len(b) THEN tie
    ELSE IF i > Len(a) THEN -1
    ELSE IF i > Len(b) THEN 1
    ELSE IF Weight(a[i]) < Weight(b[i]) THEN -1
    ELSE IF Weight(a[i]) > Weight(b[i]) THEN 1
    ELSE CompareFrom(a, b, i + 1,
                     IF tie # 0 \/ a[i] = b[i] THEN tie
                     ELSE IF a[i] = ToLowerChar(a[i]) THEN -1 ELSE 1)
localeCompare(a, b) == CompareFrom(a, b, 1, 0)

\* The rows of the model.
Rows == 1..18

\* The dates and the order of the titles of the rows, tabulated.
eventDate == [id \in Rows |-> DateParse(Event(id).date_time)]
titleCompare ==
    [a \in Rows, b \in Rows |-> localeCompare(Event(a).title, Event(b).title)]

\* The comparator without the swap of its operands for desc.
compareNoSwap(a, b, by, order) ==
    IF by = "time"
       THEN IF eventDate[a] = NaN \/ eventDate[b] = NaN THEN 0
            ELSE eventDate[a] - eventDate[b]
       ELSE titleCompare[a, b]

\* The comparator of getFilteredEvents for the rows a and b: by time the
\* difference of the instants (NaN, which sort takes for 0, if a date is
\* invalid), by name localeCompare of the titles; the operands are swapped
\* for desc.
compare(a, b, by, order) ==
    IF by = "time"
       THEN IF eventDate[a] = NaN \/ eventDate[b] = NaN THEN 0
            ELSE IF order = "asc" THEN eventDate[a] - eventDate[b]
                                  ELSE eventDate[b] - eventDate[a]
       ELSE IF order = "asc" THEN titleCompare[a, b] ELSE titleCompare[b, a]

\* Array.prototype.sort with that comparator: a stable sort.  An element
\* comes behind those that compare less and behind those before it that
\* compare equal.
sort(seq, by, order) ==
    CHOOSE sorted \in
        {[k \in 1..Len(seq) |-> seq[CHOOSE i \in 1..Len(seq) : behind[i] = k - 1]] :
            behind \in {[i \in 1..Len(seq) |->
                          Cardinality({j \in 1..Len(seq) :
                              \/ compare(seq[j], seq[i], by, order) < 0
                              \/ compare(seq[j], seq[i], by, order) = 0 /\ j < i})]}} :
        TRUE

\* Array.prototype.slice(start, end): a negative index counts from the end,
\* both are clamped to the array.
slice(seq, start, end) ==
    LET len == Len(seq)
        Clamp(i) == IF i < 0 THEN (IF len + i < 0 THEN 0 ELSE len + i)
                    ELSE (IF i > len THEN len ELSE i)
    IN SubSeq(seq, Clamp(start) + 1, Clamp(end))

\* Math.ceil(n / d) for n >= 0, d > 0.
Ceil(n, d) == (n + d - 1) \div d
\* matchesTab of getFilteredEvents for a row at the instant now: upcoming
\* if eventDate >= now, past if eventDate < now.
matchesTab(id, tab, now) ==
    IF tab = "upcoming"
       THEN eventDate[id] # NaN /\ eventDate[id] >= now
       ELSE eventDate[id] # NaN /\ eventDate[id] < now

\* matchesSearch with the search string compared as typed.
matchesSearchAsTyped(id, query) ==
    \/ query = <<>>
    \/ includes(toLowerCase(Event(id).title), query)
    \/ includes(toLowerCase(Event(id).location), query)

\* matchesSearch of getFilteredEvents for a row.
matchesSearch(id, query) ==
    \/ query = <<>>
    \/ includes(toLowerCase(Event(id).title), toLowerCase(query))
    \/ includes(toLowerCase(Event(id).location), toLowerCase(query))

\* matchesSearch, tabulated.
searchMatches == [id \in Rows, query \in Queries |-> matchesSearch(id, query)]

\* getFilteredEvents() with new Date() yielding now: the rows of the
\* active tab that match the search, sorted.
getFilteredEvents(now) ==
    sort(SelectSeq(events, LAMBDA id : matchesTab(id, activeTab, now)
                                       /\ searchMatches[id, searchQuery]),
         sortBy, sortOrder)

\* getPaginatedEvents() with the page index taken for an offset.
getPaginatedEventsFromNext(now) ==
    LET filtered == getFilteredEvents(now)
        startIndex == currentPage * eventsPerPage
        endIndex == startIndex + eventsPerPage
    IN slice(filtered, startIndex, endIndex)

\* getPaginatedEvents() with new Date() yielding now.
getPaginatedEvents(now) ==
    LET filtered == getFilteredEvents(now)
        startIndex == (currentPage - 1) * eventsPerPage
        endIndex == startIndex + eventsPerPage
    IN slice(filtered, startIndex, endIndex)

\* What the pagination controls of the last commit show: the page count of
\* the page info, and the disabled attributes of the two buttons.
PageCountShown == Ceil(Len(rendered.forPageInfo), eventsPerPage)
PreviousDisabled == rendered.currentPage = 1
NextDisabled == rendered.currentPage = Ceil(Len(rendered.forNext), eventsPerPage)

\* The dashboard is about to render the event list for the first time, at
\* any instant, with the rows a fetch has stored.
ListInit ==
    /\ events \in EventLists
    /\ clock \in 0..MaxClock
    /\ activeTab = "upcoming"
    /\ sortBy = "time"
    /\ sortOrder = "asc"
    /\ searchQuery = <<>>
    /\ currentPage = 1
    /\ rendered = [activeTab |-> "upcoming", currentPage |-> 1, rows |-> <<>>,
                   forRows |-> <<>>, forPageInfo |-> <<>>, forNext |-> <<>>]
    /\ pending = {"render", "effect"}
    /\ last = Did({})
    /\ SessionNotModelled
    /\ DetailNotModelled
    /\ CreateNotModelled
    /\ EventPage = NotModelled
    /\ Login = NotModelled

\* React renders and commits the component.  The table body, the page info
\* and the Next button each call getFilteredEvents(), which samples
\* new Date() anew; the clock may advance between the calls.
Render(d1, d2) ==
    /\ "render" \in pending
    /\ clock + d1 + d2 <= MaxClock
    /\ rendered' = [activeTab |-> activeTab, currentPage |-> currentPage,
                    rows |-> getPaginatedEvents(clock),
                    forRows |-> getFilteredEvents(clock),
                    forPageInfo |-> getFilteredEvents(clock + d1),
                    forNext |-> getFilteredEvents(clock + d1 + d2)]
    /\ clock' = clock + d1 + d2
    /\ pending' = pending \ {"render"}
    /\ UNCHANGED <<events, activeTab, sortBy, sortOrder, searchQuery,
                   currentPage, last, sessionVars, detailVars, createVars,
                   EventPage, Login>>

\* After the commit the effect [activeTab] runs: setCurrentPage(1).
TabEffect ==
    /\ pending = {"effect"}
    /\ currentPage' = 1
    /\ pending' = IF currentPage # 1 THEN {"render"} ELSE {}
    /\ UNCHANGED <<events, clock, activeTab, sortBy, sortOrder, searchQuery,
                   rendered, last, sessionVars, detailVars, createVars,
                   EventPage, Login>>

\* A tab button: setActiveTab(tab).
TabClick(tab) ==
    /\ pending = {}
    /\ activeTab' = tab
    /\ pending' = IF tab # activeTab THEN {"render", "effect"} ELSE {}
    /\ UNCHANGED <<events, clock, sortBy, sortOrder, searchQuery, currentPage,
                   rendered, last, sessionVars, detailVars, createVars,
                   EventPage, Login>>

\* The search box: setSearchQuery(e.target.value).
SearchChange(query) ==
    /\ pending = {}
    /\ query # searchQuery
    /\ searchQuery' = query
    /\ pending' = {"render"}
    /\ UNCHANGED <<events, clock, activeTab, sortBy, sortOrder, currentPage,
                   rendered, last, sessionVars, detailVars, createVars,
                   EventPage, Login>>

\* The sort select: setSortBy(e.target.value).
SortByChange(by) ==
    /\ pending = {}
    /\ by # sortBy
    /\ sortBy' = by
    /\ pending' = {"render"}
    /\ UNCHANGED <<events, clock, activeTab, sortOrder, searchQuery,
                   currentPage, rendered, last, sessionVars, detailVars,
                   createVars, EventPage, Login>>

\* The sort order button: setSortOrder(sortOrder === 'asc' ? 'desc' : 'asc').
SortOrderClick ==
    /\ pending = {}
    /\ sortOrder' = IF sortOrder = "asc" THEN "desc" ELSE "asc"
    /\ pending' = {"render"}
    /\ UNCHANGED <<events, clock, activeTab, sortBy, searchQuery, currentPage,
                   rendered, last, sessionVars, detailVars, createVars,
                   EventPage, Login>>

\* The Previous button, unless disabled:
\* setCurrentPage(prev => Math.max(prev - 1, 1)).
PreviousClick ==
    /\ pending = {}
    /\ ~PreviousDisabled
    /\ currentPage' = IF currentPage - 1 > 1 THEN currentPage - 1 ELSE 1
    /\ pending' = IF currentPage' # currentPage THEN {"render"} ELSE {}
    /\ UNCHANGED <<events, clock, activeTab, sortBy, sortOrder, searchQuery,
                   rendered, last, sessionVars, detailVars, createVars,
                   EventPage, Login>>

\* The Next button, unless disabled: setCurrentPage(prev =>
\* Math.min(prev + 1, Math.ceil(getFilteredEvents().length / eventsPerPage))).
NextClick ==
    /\ pending = {}
    /\ ~NextDisabled
    /\ LET pages == Ceil(Len(getFilteredEvents(clock)), eventsPerPage)
       IN currentPage' = IF currentPage + 1 < pages THEN currentPage + 1 ELSE pages
    /\ pending' = IF currentPage' # currentPage THEN {"render"} ELSE {}
    /\ UNCHANGED <<events, clock, activeTab, sortBy, sortOrder, searchQuery,
                   rendered, last, sessionVars, detailVars, createVars,
                   EventPage, Login>>

\* Time passes.
Tick ==
    /\ clock < MaxClock
    /\ clock' = clock + 1
    /\ UNCHANGED <<events, listVars, last, sessionVars, detailVars, createVars,
                   EventPage, Login>>

ListNext ==
    \/ \E d1, d2 \in 0..1 : Render(d1, d2)
    \/ TabEffect
    \/ \E tab \in {"upcoming", "past"} : TabClick(tab)
    \/ \E query \in Queries : SearchChange(query)
    \/ \E by \in {"time", "name"} : SortByChange(by)
    \/ SortOrderClick
    \/ PreviousClick
    \/ NextClick
    \/ Tick

ListSpec == ListInit /\ [][ListNext]_vars
\* The rows of a tab at the instant now, in the order of events.
TabRows(tab, now) == SelectSeq(events, LAMBDA id : matchesTab(id, tab, now))

\* C12: at every instant every event of the list is in exactly one of the
\* two tabs, an event with an unparseable date_time included.
C12_TabsPartitionEvents ==
    \A i \in 1..Len(events) :
        matchesTab(events[i], "upcoming", clock) # matchesTab(events[i], "past", clock)

\* C13: the evaluations of the list derivation made within one render (for
\* the displayed rows, for the page count and for the bound of the Next
\* button) yield the identical ordered result.
C13_OneDerivationPerRender ==
    /\ rendered.forRows = rendered.forPageInfo
    /\ rendered.forPageInfo = rendered.forNext

\* C14: a commit that displays another tab than the commit before displays
\* it with the page index 1.
C14_TabChangeResetsPage ==
    [][rendered'.activeTab # rendered.activeTab => rendered'.currentPage = 1]_vars

\* Each title of the sequence is at most (dir = -1), or at least (dir = 1),
\* the title behind it, in the order of localeCompare.
Monotone(rows, dir) ==
    \A i \in 1..(Len(rows) - 1) :
        titleCompare[rows[i], rows[i + 1]] \in {0, dir}

\* Two rows of the sequence have titles that compare equal.
HasEqualTitles(rows) ==
    \E i, j \in 1..Len(rows) :
        i # j /\ titleCompare[rows[i], rows[j]] = 0

\* The sequence in reverse.
Reverse(seq) == [i \in 1..Len(seq) |-> seq[Len(seq) + 1 - i]]

\* The place of a row in events.
Place(id) == CHOOSE i \in 1..Len(events) : events[i] = id

\* C15 as claimed: sorted by name, asc yields non-decreasing titles, and
\* switching the sort order yields exactly the reverse sequence, for every
\* event list.
C15_DescIsReverseOfAsc ==
    /\ [](sortBy = "name" /\ sortOrder = "asc"
            => Monotone(getFilteredEvents(clock), -1))
    /\ [][(sortBy = "name" /\ sortOrder' # sortOrder)
            => getFilteredEvents(clock)' = Reverse(getFilteredEvents(clock))]_vars

\* C15 as amended: sorted by name, asc yields non-decreasing and desc
\* non-increasing titles; events whose titles compare equal keep the order
\* they have in events under both orders; switching the sort order yields
\* exactly the reverse sequence when no two titles compare equal.
C15_NameOrder ==
    /\ [](sortBy = "name"
            => \A f \in {getFilteredEvents(clock)} :
                  /\ Monotone(f, IF sortOrder = "asc" THEN -1 ELSE 1)
                  /\ \A i, j \in 1..Len(f) :
                        (i < j /\ titleCompare[f[i], f[j]] = 0)
                            => Place(f[i]) < Place(f[j]))
    /\ [][(sortBy = "name" /\ sortOrder' # sortOrder
             /\ ~HasEqualTitles(getFilteredEvents(clock)))
            => getFilteredEvents(clock)' = Reverse(getFilteredEvents(clock))]_vars

\* Sorted by name, desc: Office before the two events titled Gala, which
\* keep the order they have in events.
C15_Witness ==
    /\ pending = {}
    /\ sortBy = "name"
    /\ sortOrder = "desc"
    /\ events = <<4, 3, 2, 1>>
    /\ rendered.rows = <<2, 3, 1>>

\* C16: getPaginatedEvents yields the rows of the filtered, sorted list at
\* the indices (counted from 0) from (currentPage-1)*8 up to, not
\* including, (currentPage-1)*8+8, and no row for a currentPage beyond the
\* last page.
C16_PageSlice ==
    LET f == getFilteredEvents(clock)
        first == (currentPage - 1) * 8
        n == Cardinality({i \in 0..(Len(f) - 1) : first <= i /\ i < first + 8})
    IN /\ getPaginatedEvents(clock) = [k \in 1..n |-> f[first + k]]
       /\ currentPage > Ceil(Len(f), 8) => getPaginatedEvents(clock) = <<>>

\* Page 2 of a list that has come to fit on one page is displayed: no row.
C16_Witness ==
    /\ pending = {}
    /\ currentPage = 2
    /\ rendered.currentPage = 2
    /\ Len(rendered.forRows) \in 1..8
    /\ rendered.rows = <<>>

\* The characters are the same letter, in either case.
SameLetter(a, b) ==
    \/ a = b
    \/ \E k \in 1..26 : {a, b} = {Lowercase[k], Uppercase[k]}

\* q occurs in str, letters compared without regard to case.
ContainsIgnoringCase(str, q) ==
    \E i \in 0..(Len(str) - Len(q)) :
        \A j \in 1..Len(q) : SameLetter(str[i + j], q[j])

\* C17: the filtered list holds exactly the events of the active tab whose
\* title or location contains searchQuery, case ignored, each once; with an
\* empty searchQuery it holds every event of the tab.
C17_SearchFilter ==
    LET f == getFilteredEvents(clock)
        tab == TabRows(activeTab, clock)
        kept == {tab[i] : i \in {k \in 1..Len(tab) :
                    \/ ContainsIgnoringCase(Event(tab[k]).title, searchQuery)
                    \/ ContainsIgnoringCase(Event(tab[k]).location, searchQuery)}}
    IN /\ {f[i] : i \in 1..Len(f)} = kept
       /\ Len(f) = Cardinality(kept)
       /\ searchQuery = <<>> => Len(f) = Len(tab)

\* The search for "PA" keeps the event at the Park, not the one at the Hall.
C17_Witness ==
    /\ pending = {}
    /\ searchQuery = <<"P", "A">>
    /\ events = <<1, 3>>
    /\ rendered.rows = <<3>>

(***************************************************************************)
(* The create-event dialog of AdminPage: handleInputChange, handleSubmit   *)
(* and the form they are bound to (src/unnamed/part_002).                  *)
(***************************************************************************)

\* handleSubmit calls suspended in the insert at the same time.
MaxInserts == 2

\* The values of the date_time input: empty, or a well-formed local date
\* and time, which the clock reaches and passes.
DateValues == {"", "2025-01-02T10:00"}

\* The values typed into the inputs title, location and description.
TextValues ==
    [title |-> {<<>>, Gala}, location |-> {<<>>, Hall}, description |-> {<<>>, Party}]

\* useState newEvent: the empty form.
EmptyEvent ==
    [title |-> <<>>, date_time |-> "", location |-> <<>>, description |-> <<>>,
     allow_plus_one |-> FALSE]

\* The field-level date error.
FutureDatePlease == "Please select a future date and time"

\* The calls of handleSubmit: e.preventDefault(), the insert, console.error.
PreventDefault == "e.preventDefault()"
InsertEvent == "from('events').insert([newEvent])"
ErrorCreating == "console.error('Error creating event:')"

\* selectedDateTime < currentDateTime for the Dates of the string value and
\* of the instant now.
BeforeNow(value, now) == DateParse(value) # NaN /\ DateParse(value) < now

\* The constraint validation of the form, which the browser runs before it
\* dispatches the submit event: the inputs marked required are filled in
\* and date_time is not below the min attribute of the last render.
CreateFormValid ==
    /\ newEvent.title # <<>>
    /\ newEvent.date_time # ""
    /\ newEvent.location # <<>>
    /\ newEvent.description # <<>>
    /\ DateParse(newEvent.date_time) >= rendered.min

\* The rows the events table comes to hold, and the fetchEvents() calls
\* that are, or are about to be, suspended at the same time.
MaxRows == 2
MaxFetching == 2

\* data of a successful select when the table holds n rows.
TableRows(n) == [i \in 1..n |-> i]

\* The most recently issued fetchEvents(): none yet; suspended (await),
\* with the size of the table when it was issued; or resolved, with the
\* number of rows it got (done) or with an error (failed).
NoFetch == [pc |-> "none", from |-> 0, rows |-> 0]

\* The fetchEvents() calls that are suspended.
Fetching == (IF fetching.newest.pc = "await" THEN 1 ELSE 0) + Len(fetching.older)

\* The dashboard is displayed with the rows of the table, the dialog
\* closed.
CreateInit ==
    /\ clock \in 0..MaxClock
    /\ newEvent = EmptyEvent
    /\ dateTimeError = NoError
    /\ showCreateDialog = FALSE
    /\ inserting = 0
    /\ showSuccess = FALSE
    /\ table \in 0..1
    /\ fetching = [newest |-> NoFetch, older |-> <<>>]
    /\ events = TableRows(table)
    /\ loading = FALSE
    /\ rendered = [min |-> clock]
    /\ last = Did({})
    /\ activeTab = NotModelled
    /\ sortBy = NotModelled
    /\ sortOrder = NotModelled
    /\ searchQuery = NotModelled
    /\ currentPage = NotModelled
    /\ pending = NotModelled
    /\ mounted = NotModelled
    /\ run = NotModelled
    /\ checkSession = NotModelled
    /\ confirmed = NotModelled
    /\ subscription = NotModelled
    /\ user = NotModelled
    /\ rsvps = NotModelled
    /\ redirected = NotModelled
    /\ refresh = NotModelled
    /\ stale = NotModelled
    /\ eventsStale = NotModelled
    /\ rsvpsStale = NotModelled
    /\ DetailNotModelled
    /\ EventPage = NotModelled
    /\ Login = NotModelled

\* What the actions of the dialog leave alone.
createFrame == <<activeTab, sortBy, sortOrder, searchQuery, currentPage,
                 pending, mounted, run, checkSession, confirmed, subscription,
                 user, rsvps, redirected, refresh, stale, eventsStale,
                 rsvpsStale, detailVars, EventPage, Login>>

\* The state of the events collection and of its fetches.
dataVars == <<events, loading, table, fetching>>

\* fetchEvents() up to its await, the table holding rowsNow rows:
\* setLoading(true) and the select is issued.
fetchEvents(rowsNow) ==
    /\ loading' = TRUE
    /\ fetching' =
           [newest |-> [pc |-> "await", from |-> rowsNow, rows |-> 0],
            older |-> IF fetching.newest.pc = "await"
                         THEN Append(fetching.older, fetching.newest.from)
                         ELSE fetching.older]

\* The Create New Event button (true), the close and Cancel buttons
\* (false): setShowCreateDialog.  The re-render gives the date_time input
\* its min attribute, getCurrentDateTime().
SetShowCreateDialog(show) ==
    /\ ~loading
    /\ show # showCreateDialog
    /\ showCreateDialog' = show
    /\ rendered' = [min |-> clock]
    /\ last' = Did({})
    /\ UNCHANGED <<clock, newEvent, dateTimeError, inserting, showSuccess,
                   dataVars, createFrame>>

\* handleInputChange for the input name with a value of e.target, which
\* differs from the value the controlled input displays: a date_time
\* before now sets the date error and is dropped; any other value is
\* stored, a date_time clearing the error.
handleInputChange(name, value) ==
    /\ ~loading
    /\ showCreateDialog
    /\ value # newEvent[name]
    /\ IF name = "date_time" /\ BeforeNow(value, clock)
          THEN /\ dateTimeError' = FutureDatePlease
               /\ UNCHANGED newEvent
          ELSE /\ dateTimeError' = IF name = "date_time" THEN NoError
                                    ELSE dateTimeError
               /\ newEvent' = [newEvent EXCEPT ![name] = value]
    /\ rendered' = IF dateTimeError' # dateTimeError \/ newEvent' # newEvent
                      THEN [min |-> clock] ELSE rendered
    /\ last' = Did({})
    /\ UNCHANGED <<clock, showCreateDialog, inserting, showSuccess, dataVars,
                   createFrame>>

\* handleSubmit after its await with fetchEvents() left out.
InsertResolveNoFetch(error) ==
    /\ inserting > 0
    /\ inserting' = inserting - 1
    /\ IF error
          THEN /\ last' = Did({ErrorCreating})
               /\ UNCHANGED <<newEvent, showCreateDialog, showSuccess, rendered,
                              dataVars>>
          ELSE /\ newEvent' = EmptyEvent
               /\ showSuccess' = TRUE
               /\ showCreateDialog' = FALSE
               /\ table' = table + 1
               /\ rendered' = [min |-> clock]
               /\ last' = Did({})
               /\ UNCHANGED <<events, loading, fetching>>
    /\ UNCHANGED <<clock, dateTimeError, createFrame>>

\* The form is submitted and valid: handleSubmit up to its await.  A
\* date_time before now sets the date error; otherwise the insert is
\* issued.
handleSubmit ==
    /\ ~loading
    /\ showCreateDialog
    /\ CreateFormValid
    /\ inserting < MaxInserts
    /\ table + inserting < MaxRows
    /\ Fetching + inserting < MaxFetching
    /\ IF BeforeNow(newEvent.date_time, clock)
          THEN /\ dateTimeError' = FutureDatePlease
               /\ rendered' = IF dateTimeError' # dateTimeError
                                 THEN [min |-> clock] ELSE rendered
               /\ last' = Did({PreventDefault})
               /\ UNCHANGED inserting
          ELSE /\ inserting' = inserting + 1
               /\ last' = Did({PreventDefault, InsertEvent})
               /\ UNCHANGED <<dateTimeError, rendered>>
    /\ UNCHANGED <<clock, newEvent, showCreateDialog, showSuccess, dataVars,
                   createFrame>>

\* handleSubmit after its await: an error is logged; otherwise the table
\* holds the new row, the form is emptied, the success alert shown, the
\* dialog closed and fetchEvents() called.
InsertResolve(error) ==
    /\ inserting > 0
    /\ inserting' = inserting - 1
    /\ IF error
          THEN /\ last' = Did({ErrorCreating})
               /\ UNCHANGED <<newEvent, showCreateDialog, showSuccess, rendered,
                              dataVars>>
          ELSE /\ newEvent' = EmptyEvent
               /\ showSuccess' = TRUE
               /\ showCreateDialog' = FALSE
               /\ table' = table + 1
               /\ fetchEvents(table + 1)
               /\ rendered' = [min |-> clock]
               /\ last' = Did({SelectEvents})
               /\ UNCHANGED events
    /\ UNCHANGED <<clock, dateTimeError, createFrame>>

\* The success alert is closed, by its button or by the timer of three
\* seconds.
HideSuccess ==
    /\ showSuccess = TRUE
    /\ showSuccess' = FALSE
    /\ rendered' = [min |-> clock]
    /\ last' = Did({})
    /\ UNCHANGED <<clock, newEvent, dateTimeError, showCreateDialog, inserting,
                   dataVars, createFrame>>

\* The refresh button of the dashboard: setLoading(true) and fetchEvents()
\* up to its await.
RefreshButton ==
    /\ ~loading
    /\ Fetching + inserting < MaxFetching
    /\ fetchEvents(table)
    /\ rendered' = [min |-> clock]
    /\ last' = Did({SelectEvents})
    /\ UNCHANGED <<clock, newEvent, dateTimeError, showCreateDialog, inserting,
                   showSuccess, events, table, createFrame>>

\* fetchEvents() after its await, the newest call (k = 0) or an older one
\* (k-th of those suspended): the select was served when the table held n
\* rows, between the call and now.  An error is logged; otherwise the rows
\* are stored; then setLoading(false), which the refresh button's handler
\* repeats.
EventsResolve(k, error, n) ==
    /\ k \in 0..Len(fetching.older)
    /\ IF k = 0 THEN fetching.newest.pc = "await" ELSE TRUE
    /\ n \in (IF k = 0 THEN fetching.newest.from ELSE fetching.older[k])..table
    /\ error => n = table
    /\ fetching' =
           IF k = 0
              THEN [fetching EXCEPT
                       !.newest.pc = IF error THEN "failed" ELSE "done",
                       !.newest.from = 0,
                       !.newest.rows = IF error THEN 0 ELSE n]
              ELSE [fetching EXCEPT
                       !.older = SubSeq(@, 1, k - 1) \o SubSeq(@, k + 1, Len(@))]
    /\ events' = IF error THEN events ELSE TableRows(n)
    /\ loading' = FALSE
    /\ rendered' = [min |-> clock]
    /\ last' = Did(IF error THEN {ErrorEvents} ELSE {})
    /\ UNCHANGED <<clock, newEvent, dateTimeError, showCreateDialog, inserting,
                   showSuccess, table, createFrame>>

CreateNext ==
    \/ \E show \in BOOLEAN : SetShowCreateDialog(show)
    \/ \E name \in {"title", "location", "description"} :
          \E value \in TextValues[name] : handleInputChange(name, value)
    \/ \E value \in DateValues : handleInputChange("date_time", value)
    \/ \E checked \in BOOLEAN : handleInputChange("allow_plus_one", checked)
    \/ handleSubmit
    \/ \E error \in BOOLEAN : InsertResolve(error)
    \/ HideSuccess
    \/ RefreshButton
    \/ \E k \in 0..MaxFetching, error \in BOOLEAN, n \in 0..MaxRows :
          EventsResolve(k, error, n)
    \/ Tick

CreateSpec == CreateInit /\ [][CreateNext]_vars

\* The string value is a date and time strictly later than the instant now.
StrictlyFuture(value, now) == DateParse(value) # NaN /\ DateParse(value) > now

\* C19: handleSubmit issues the insert only for a date_time strictly later
\* than the instant of the submission; for any other date_time it sets the
\* date error and issues no insert.
C19_InsertOnlyForFutureDate ==
    /\ [][(InsertEvent \in last'.called) => StrictlyFuture(newEvent.date_time, clock)]_vars
    /\ [][(PreventDefault \in last'.called /\ ~StrictlyFuture(newEvent.date_time, clock))
            => (dateTimeError' = FutureDatePlease /\ InsertEvent \notin last'.called)]_vars

\* C25: when a read of the dashboard fails, what is rendered afterwards is
\* not the dashboard with the rows it had.
C25_ReadFailureIsSurfaced ==
    [][(ErrorEvents \in last'.called) => ~(~loading' /\ events' = events)]_vars

\* C24: when the insert of handleSubmit fails, the organizer is given a
\* notice (something other than the console is called, or an error message
\* is set), newEvent and the dialog stay as they are, no success alert is
\* shown and no fetch is issued.
C24_FailedCreateGivesNotice ==
    [][(inserting' < inserting /\ table' = table) =>
          /\ newEvent' = newEvent
          /\ showCreateDialog' = showCreateDialog
          /\ showSuccess' = showSuccess
          /\ SelectEvents \notin last'.called
          /\ fetching' = fetching
          /\ \/ last'.called \ {ErrorCreating} # {}
             \/ dateTimeError' \notin {NoError, dateTimeError}]_vars

\* C26: a successful insert of handleSubmit calls fetchEvents(); when the
\* fetch that a successful insert issued resolves without error, events
\* holds the created row; newEvent is emptied by a successful insert only.
C26_CreateThenRefetch ==
    /\ [][(table' > table) =>
            /\ SelectEvents \in last'.called
            /\ fetching'.newest = [pc |-> "await", from |-> table', rows |-> 0]
            /\ newEvent' = EmptyEvent]_vars
    /\ [][\A k \in 0..Len(fetching.older) :
            LET from == IF k = 0 THEN fetching.newest.from ELSE fetching.older[k]
                gone == IF k = 0 THEN fetching.newest.pc = "await"
                                      /\ fetching'.newest.pc = "done"
                        ELSE /\ fetching'.older =
                                    SubSeq(fetching.older, 1, k - 1)
                                        \o SubSeq(fetching.older, k + 1,
                                                  Len(fetching.older))
                             /\ ErrorEvents \notin last'.called
            IN (from > 0 /\ gone) => Len(events') >= from]_vars
    /\ [][(inserting' < inserting /\ table' = table) => newEvent' = newEvent]_vars

\* The fetch of a successful insert has resolved and events holds the two
\* rows of the table, the second of them created in the dialog.
C26_Witness ==
    /\ table = 2
    /\ fetching.newest = [pc |-> "done", from |-> 0, rows |-> 2]
    /\ events = TableRows(2)
    /\ newEvent = EmptyEvent
    /\ showSuccess = TRUE

\* C29: loading is true while a fetchEvents() is suspended, and once all
\* have resolved, the most recently issued one without error, events holds
\* the rows that one got and loading is false.
C29_NewestFetchWins ==
    /\ (Fetching > 0) => loading
    /\ (Fetching = 0 /\ fetching.newest.pc = "done")
          => (events = TableRows(fetching.newest.rows) /\ ~loading)

\* ---------------------------------------------------------------------------
\* EventPage: the public RSVP page of one event (/event/[eventId]).
\* ---------------------------------------------------------------------------

\* The runs of the fetch effect and the submits that are followed.
MaxRsvpFetches == 2
MaxRsvpInserts == 2

\* The events table: the first event allows a plus one, the second does not.
allow_plus_one(id) == id = 1

\* The values typed into the text inputs, and the options of the select.
NameValues == {"", "Ann"}
EmailValues == {"", "ann@example.org"}
DietaryValues == {"", "vegan"}
ResponseOptions == {"", "yes", "no"}

\* The form as useState creates it.
EmptyRsvp ==
    [name |-> "", email |-> "", response |-> "", plus_one |-> FALSE,
     dietary_preferences |-> ""]

\* No row has been handed to the Repository.
NoRow == [newRsvp |-> EmptyRsvp, event_id |-> NoEvent]

\* The messages of the page and the calls its callbacks make.
ErrorAccessing == "Error accessing events. Please try again later."
ErrorNotFound == "Event not found. Please check the event link and try again."
ErrorLoading == "An error occurred while loading the event. Please try again later."
ErrorUnexpected == "An unexpected error occurred. Please try again later."
AlertResponse == "alert('Please select whether you will be attending')"
AlertSubmitting == "alert('Error submitting RSVP. Please try again.')"
InsertRsvp == "from('rsvps').insert([{...newRsvp, event_id: eventId}])"
AlertUnexpected == "alert('An unexpected error occurred. Please try again.')"
PushThankYou(response) ==
    CASE response = "yes" -> "router.push('/thank-you?response=yes')"
      [] response = "no" -> "router.push('/thank-you?response=no')"
      [] OTHER -> "router.push('/thank-you?response=')"

\* The outcomes of the insert of handleSubmit.
InsertResults == {"ok", "error", "throws"}

\* handleSubmit resumes with that outcome of its insert.
InsertReply(res) ==
    CASE res = "ok" -> "{ error: null } = await insert"
      [] res = "error" -> "{ error } = await insert"
      [] res = "throws" -> "await insert throws"
SelectLimit == "from('events').select('*').limit(1)"
SelectMaybeSingle == "from('events').select('*').eq('id', eventId).maybeSingle()"

\* The outcomes of the two selects of fetchEvent.
LimitResults == {"ok", "error", "throws"}
MaybeSingleResults == {"data", "PGRST116", "error", "throws"}

\* The render guards: spinner, error panel, "Event Not Found", the form.
RsvpView ==
    IF EventPage.loading THEN "loading"
    ELSE IF EventPage.error # NoError THEN "error"
    ELSE IF EventPage.event = NoEvent THEN "not found"
    ELSE "form"

\* The form is on the screen and can be used.
FormShown == EventPage.mounted /\ RsvpView = "form"

\* The constraint validation without the required attribute of the name.
RsvpFormValidNameOptional ==
    /\ EventPage.newRsvp.email # ""
    /\ EventPage.newRsvp.response # ""

\* The constraint validation the browser runs before it dispatches the
\* submit event: name, email and response are marked required.
RsvpFormValid ==
    /\ EventPage.newRsvp.name # ""
    /\ EventPage.newRsvp.email # ""
    /\ EventPage.newRsvp.response # ""

\* The page is mounted before the router is ready: no eventId, the spinner.
RsvpInit ==
    /\ EventPage = [mounted |-> TRUE, isReady |-> FALSE, eventId |-> NoEvent,
                    event |-> NoEvent, loading |-> TRUE, error |-> NoError,
                    newRsvp |-> EmptyRsvp, fetches |-> <<>>, inserting |-> <<>>,
                    inserted |-> NoRow]
    /\ last = Did({})
    /\ events = NotModelled
    /\ clock = NotModelled
    /\ SessionNotModelled
    /\ DetailNotModelled
    /\ ListNotModelled
    /\ CreateNotModelled
    /\ Login = NotModelled

\* The page as a step finds it: the step has handed no row to the
\* Repository yet.
Page == [EventPage EXCEPT !.inserted = NoRow]

\* What the actions of the page leave alone.
rsvpFrame == <<events, clock, sessionVars, detailVars, listVars, createVars,
               Login>>

\* The router becomes ready with the eventId of the link: the effect runs
\* and calls fetchEvent(), which suspends in its first select.
RouterReady(e) ==
    /\ EventPage.mounted
    /\ ~EventPage.isReady
    /\ EventPage' = [Page EXCEPT
                        !.isReady = TRUE,
                        !.eventId = e,
                        !.fetches = <<[pc |-> "limit", eventId |-> e]>>]
    /\ last' = Did({SelectLimit})
    /\ UNCHANGED rsvpFrame

\* The route changes to another event while the page stays mounted: the
\* dependency eventId differs, the effect runs again.  No state is reset.
RouteChange(e) ==
    /\ EventPage.mounted
    /\ EventPage.isReady
    /\ e # EventPage.eventId
    /\ Len(EventPage.fetches) < MaxRsvpFetches
    /\ EventPage' = [Page EXCEPT
                        !.eventId = e,
                        !.fetches = Append(@, [pc |-> "limit", eventId |-> e])]
    /\ last' = Did({SelectLimit})
    /\ UNCHANGED rsvpFrame

\* fetchEvent after its first await: an error ends it with a message; else
\* the select of the event of its eventId is issued.
FetchLimitResolve(k, res) ==
    /\ k \in 1..Len(EventPage.fetches)
    /\ EventPage.fetches[k].pc = "limit"
    /\ res \in LimitResults
    /\ LET done == [Page EXCEPT !.fetches[k].pc = "done"]
           shown == IF EventPage.mounted
                       THEN [done EXCEPT !.loading = FALSE] ELSE done
       IN  CASE res = "ok" ->
                  /\ EventPage' = [Page EXCEPT !.fetches[k].pc = "single"]
                  /\ last' = Did({SelectMaybeSingle})
             [] res = "error" ->
                  /\ EventPage' = IF EventPage.mounted
                                     THEN [shown EXCEPT !.error = ErrorAccessing]
                                     ELSE shown
                  /\ last' = Did({})
             [] res = "throws" ->
                  /\ EventPage' = IF EventPage.mounted
                                     THEN [shown EXCEPT !.error = ErrorUnexpected]
                                     ELSE shown
                  /\ last' = Did({})
    /\ UNCHANGED rsvpFrame

\* fetchEvent after its second await: the event is kept, plus_one is reset
\* when the event allows none, the error is cleared; a failure or a missing
\* row leaves a message.  The spinner is removed in every case.
FetchSingleResolve(k, res) ==
    /\ k \in 1..Len(EventPage.fetches)
    /\ EventPage.fetches[k].pc = "single"
    /\ res \in MaybeSingleResults
    /\ LET id == EventPage.fetches[k].eventId
           data == IF id \in EventIds THEN id ELSE NoEvent
           done == [Page EXCEPT !.fetches[k].pc = "done"]
           set == CASE res = "PGRST116" -> [done EXCEPT !.error = ErrorNotFound]
                    [] res = "error" -> [done EXCEPT !.error = ErrorLoading]
                    [] res = "throws" -> [done EXCEPT !.error = ErrorUnexpected]
                    [] res = "data" /\ data = NoEvent ->
                          [done EXCEPT !.error = ErrorNotFound]
                    [] res = "data" /\ data # NoEvent ->
                          [done EXCEPT
                              !.event = data,
                              !.newRsvp.plus_one =
                                  IF allow_plus_one(data) THEN @ ELSE FALSE,
                              !.error = NoError]
       IN  EventPage' = IF EventPage.mounted
                           THEN [set EXCEPT !.loading = FALSE] ELSE done
    /\ last' = Did({})
    /\ UNCHANGED rsvpFrame

\* A text input of the form changes.
handleChange(name, value) ==
    /\ FormShown
    /\ \/ name = "name" /\ value \in NameValues
       \/ name = "email" /\ value \in EmailValues
       \/ name = "dietary_preferences" /\ value \in DietaryValues
    /\ value # EventPage.newRsvp[name]
    /\ EventPage' = [Page EXCEPT !.newRsvp[name] = value]
    /\ last' = Did({})
    /\ UNCHANGED rsvpFrame

\* The select's onChange without the reset of plus_one.
ResponseChangeKeepsPlusOne(newResponse) ==
    /\ FormShown
    /\ newResponse # EventPage.newRsvp.response
    /\ EventPage' = [Page EXCEPT !.newRsvp.response = newResponse]
    /\ last' = Did({})
    /\ UNCHANGED rsvpFrame

\* Another option of the attendance select is chosen: "no" clears plus_one.
ResponseChange(newResponse) ==
    /\ FormShown
    /\ newResponse # EventPage.newRsvp.response
    /\ EventPage' = [Page EXCEPT
                        !.newRsvp.response = newResponse,
                        !.newRsvp.plus_one =
                            IF newResponse = "no" THEN FALSE ELSE @]
    /\ last' = Did({})
    /\ UNCHANGED rsvpFrame

\* One of the two plus-one buttons, which are rendered for an event that
\* allows a plus one once "yes" is selected.
PlusOneClick(plus_one) ==
    /\ FormShown
    /\ allow_plus_one(EventPage.event)
    /\ EventPage.newRsvp.response = "yes"
    /\ plus_one # EventPage.newRsvp.plus_one
    /\ EventPage' = [Page EXCEPT !.newRsvp.plus_one = plus_one]
    /\ last' = Did({})
    /\ UNCHANGED rsvpFrame

\* The sequence without its k-th element.
Remove(seq, k) == SubSeq(seq, 1, k - 1) \o SubSeq(seq, k + 1, Len(seq))

\* handleSubmit after its await with router.push given the response of the
\* form as it is when the reply arrives.
RsvpInsertResolveCurrent(k, res) ==
    /\ k \in 1..Len(EventPage.inserting)
    /\ res \in InsertResults
    /\ CASE res = "ok" ->
              /\ EventPage' = [Page EXCEPT
                                  !.inserting = Remove(@, k),
                                  !.mounted = FALSE]
              /\ last' = Did({InsertReply(res), PushThankYou(EventPage.newRsvp.response)})
         [] res = "error" ->
              /\ EventPage' = [Page EXCEPT
                                  !.inserting = Remove(@, k)]
              /\ last' = Did({InsertReply(res), AlertSubmitting})
         [] res = "throws" ->
              /\ EventPage' = [Page EXCEPT
                                  !.inserting = Remove(@, k)]
              /\ last' = Did({InsertReply(res), AlertUnexpected})
    /\ UNCHANGED rsvpFrame

\* handleSubmit after its await with a second insert behind the alert.
RsvpInsertResolveRetry(k, res) ==
    /\ k \in 1..Len(EventPage.inserting)
    /\ res \in InsertResults
    /\ CASE res = "ok" ->
              /\ EventPage' = [Page EXCEPT
                                  !.inserting = Remove(@, k),
                                  !.mounted = FALSE]
              /\ last' = Did({InsertReply(res), PushThankYou(EventPage.inserting[k])})
         [] res \in {"error", "throws"} ->
              /\ EventPage' = Page
              /\ last' = Did({InsertReply(res), AlertSubmitting, InsertRsvp})
    /\ UNCHANGED rsvpFrame

\* The form is submitted and valid: handleSubmit up to its await.  The row
\* carries the form and the eventId of the route as it is now; the call
\* suspends with the response of that form, which it reads when it resumes.
EventPage_handleSubmit ==
    /\ FormShown
    /\ RsvpFormValid
    /\ Len(EventPage.inserting) < MaxRsvpInserts
    /\ IF EventPage.newRsvp.response = ""
          THEN /\ last' = Did({PreventDefault, AlertResponse})
               /\ EventPage' = Page
          ELSE /\ EventPage' = [Page EXCEPT
                                   !.inserting =
                                       Append(@, EventPage.newRsvp.response),
                                   !.inserted =
                                       [newRsvp |-> EventPage.newRsvp,
                                        event_id |-> EventPage.eventId]]
               /\ last' = Did({PreventDefault, InsertRsvp})
    /\ UNCHANGED rsvpFrame

\* handleSubmit after its await, with the newRsvp of the render that
\* submitted: an error or an exception is reported with an alert; otherwise
\* the router leaves for the thank-you page with the response of the row.
RsvpInsertResolve(k, res) ==
    /\ k \in 1..Len(EventPage.inserting)
    /\ res \in InsertResults
    /\ CASE res = "ok" ->
              /\ EventPage' = [Page EXCEPT
                                  !.inserting = Remove(@, k),
                                  !.mounted = FALSE]
              /\ last' = Did({InsertReply(res), PushThankYou(EventPage.inserting[k])})
         [] res = "error" ->
              /\ EventPage' = [Page EXCEPT
                                  !.inserting = Remove(@, k)]
              /\ last' = Did({InsertReply(res), AlertSubmitting})
         [] res = "throws" ->
              /\ EventPage' = [Page EXCEPT
                                  !.inserting = Remove(@, k)]
              /\ last' = Did({InsertReply(res), AlertUnexpected})
    /\ UNCHANGED rsvpFrame

\* The visitor leaves the page.
RsvpUnmount ==
    /\ EventPage.mounted
    /\ EventPage' = [Page EXCEPT !.mounted = FALSE]
    /\ last' = Did({})
    /\ UNCHANGED rsvpFrame

RsvpNext ==
    \/ \E e \in LinkIds : RouterReady(e)
    \/ \E e \in LinkIds : RouteChange(e)
    \/ \E k \in 1..MaxRsvpFetches, res \in LimitResults : FetchLimitResolve(k, res)
    \/ \E k \in 1..MaxRsvpFetches, res \in MaybeSingleResults :
          FetchSingleResolve(k, res)
    \/ \E name \in {"name", "email", "dietary_preferences"},
          value \in NameValues \cup EmailValues \cup DietaryValues :
          handleChange(name, value)
    \/ \E newResponse \in ResponseOptions : ResponseChange(newResponse)
    \/ \E plus_one \in BOOLEAN : PlusOneClick(plus_one)
    \/ EventPage_handleSubmit
    \/ \E k \in 1..MaxRsvpInserts, res \in InsertResults : RsvpInsertResolve(k, res)
    \/ RsvpUnmount

RsvpSpec == RsvpInit /\ [][RsvpNext]_vars

\* C18: every row the form inserts for an event that allows no plus one has
\* plus_one = false, whatever interactions, loads and route changes came
\* before the submit.
C18_NoPlusOneWhenNotAllowed ==
    (EventPage.inserted # NoRow /\ ~allow_plus_one(EventPage.inserted.event_id))
        => EventPage.inserted.newRsvp.plus_one = FALSE

\* C20: the submit handler issues an insert only with a name, an email and
\* a response that are all non-empty; no other submit reaches the
\* Repository.
C20_InsertNeedsNameEmailResponse ==
    [][(InsertRsvp \in last'.called) =>
          /\ EventPage.newRsvp.name # ""
          /\ EventPage.newRsvp.email # ""
          /\ EventPage.newRsvp.response # ""
          /\ EventPage'.inserted.newRsvp = EventPage.newRsvp]_vars

\* A complete form has been handed to the Repository.
C20_Witness ==
    /\ InsertRsvp \in last.called
    /\ EventPage.inserted # NoRow
    /\ EventPage.inserted.newRsvp.name = "Ann"
    /\ EventPage.inserted.newRsvp.response = "no"

\* C21: a valid submit issues exactly one insert, of the row that combines
\* the form with the eventId of the route, and when an insert succeeds the
\* router is sent to the thank-you page with the response that was inserted.
C21_OneInsertThenThankYou ==
    /\ [][(PreventDefault \in last'.called /\ RsvpFormValid) =>
            /\ InsertRsvp \in last'.called
            /\ EventPage'.inserted = [newRsvp |-> EventPage.newRsvp,
                                      event_id |-> EventPage.eventId]
            /\ EventPage'.inserting =
                   Append(EventPage.inserting, EventPage'.inserted.newRsvp.response)]_vars
    /\ [][(InsertReply("ok") \in last'.called) =>
            \E k \in 1..Len(EventPage.inserting) :
                /\ EventPage'.inserting = Remove(EventPage.inserting, k)
                /\ last'.called =
                       {InsertReply("ok"), PushThankYou(EventPage.inserting[k])}]_vars

\* An insert of "yes" has succeeded after the guest had switched the select
\* to "no": the thank-you page is given "yes".
C21_Witness ==
    /\ InsertReply("ok") \in last.called
    /\ PushThankYou("yes") \in last.called
    /\ EventPage.newRsvp.response = "no"

\* C22: when the insert fails, with an error or an exception, the guest
\* gets an alert, the router is not called, the form keeps its values, the
\* page stays, and no insert is issued but by a submit.
C22_FailedInsertKeepsForm ==
    /\ [][(last'.called \cap {InsertReply("error"), InsertReply("throws")} # {}) =>
            /\ last'.called \cap {AlertSubmitting, AlertUnexpected} # {}
            /\ \A r \in ResponseOptions : PushThankYou(r) \notin last'.called
            /\ InsertRsvp \notin last'.called
            /\ EventPage'.newRsvp = EventPage.newRsvp
            /\ EventPage'.mounted = EventPage.mounted
            /\ Len(EventPage'.inserting) = Len(EventPage.inserting) - 1]_vars
    /\ [][(InsertRsvp \in last'.called) => PreventDefault \in last'.called]_vars

\* An insert has thrown while the filled-in form is on the screen.
C22_Witness ==
    /\ InsertReply("throws") \in last.called
    /\ AlertUnexpected \in last.called
    /\ FormShown
    /\ EventPage.newRsvp.name = "Ann"
    /\ EventPage.newRsvp.dietary_preferences = "vegan"

\* ---------------------------------------------------------------------
\* The login page, src/pages/index.tsx.
\* ---------------------------------------------------------------------

\* Sign-in calls that may be suspended at once, and runs of the session
\* effect whose getSession may be suspended at once.
MaxLogins == 2
MaxLoginRuns == 2

\* The values typed into the email and the password input.
LoginEmailValues == {"", "ann@example.com"}
PasswordValues == {"", "secret"}

\* useState<string | null>(null) and the two messages handleLogin sets.
NoLoginError == "null"
InvalidCredentials == "Invalid login credentials"
UnexpectedError == "An unexpected error occurred"

\* The calls of the login page.
ReplaceAdmin == "router.replace('/admin')"
SignIn == "auth.signInWithPassword({email, password})"

\* The outcomes of signInWithPassword and of getSession.
SignInResults == {"ok", "error", "throws"}
SignInReply(res) ==
    CASE res = "ok" -> "{ error: null } = await signInWithPassword"
      [] res = "error" -> "{ error } = await signInWithPassword"
      [] res = "throws" -> "await signInWithPassword throws"

\* The render guards of Login: the spinner card while loading, the form
\* otherwise.
LoginView ==
    IF ~Login.mounted THEN "unmounted"
    ELSE IF Login.loading THEN "loading"
    ELSE "form"

\* The inputs email and password are required, and email is type="email".
LoginFormValid ==
    /\ Login.formData.email # ""
    /\ Login.formData.password # ""

\* A state update of Login: applied while mounted, dropped afterwards.
LoginSet(new) == IF Login.mounted THEN new ELSE Login

\* The state after useState, with the first run of the effect suspended in
\* getSession; the Session Store holds a session or none.
LoginInit ==
    /\ \E s \in Users \cup {NoUser} :
          Login = [mounted |-> TRUE,
                   formData |-> [email |-> "", password |-> ""],
                   showPassword |-> FALSE, error |-> NoLoginError,
                   loading |-> TRUE, checking |-> 1, signingIn |-> 0,
                   session |-> s]
    /\ last = Did({})
    /\ events = NotModelled
    /\ clock = NotModelled
    /\ SessionNotModelled
    /\ DetailNotModelled
    /\ ListNotModelled
    /\ CreateNotModelled
    /\ EventPage = NotModelled

loginFrame == <<events, clock, sessionVars, detailVars, listVars, createVars,
                EventPage>>

\* checkSession after its await: a session with a user redirects and
\* returns, no session clears loading, an exception is logged and clears
\* loading.
LoginCheckSession(throws) ==
    /\ Login.checking > 0
    /\ IF throws
          THEN /\ Login' = LoginSet([Login EXCEPT !.loading = FALSE,
                                                  !.checking = @ - 1])
               /\ last' = Did({ErrorSession})
          ELSE IF Login.session # NoUser
          THEN /\ Login' = [Login EXCEPT !.checking = @ - 1,
                                         !.mounted = FALSE]
               /\ last' = Did({ReplaceAdmin})
          ELSE /\ Login' = LoginSet([Login EXCEPT !.loading = FALSE,
                                                  !.checking = @ - 1])
               /\ last' = Did({})
    /\ UNCHANGED loginFrame

\* The effect runs again when router changes: checkSession is called again
\* and the subscription is renewed.
LoginEffectRerun ==
    /\ Login.mounted
    /\ Login.checking < MaxLoginRuns
    /\ Login' = [Login EXCEPT !.checking = @ + 1]
    /\ last' = Did({})
    /\ UNCHANGED loginFrame

\* The callback of onAuthStateChange: redirects when the session has a
\* user.
LoginAuthStateChange(s) ==
    /\ Login.mounted
    /\ Login' = [Login EXCEPT !.session = s,
                              !.mounted = IF s # NoUser THEN FALSE ELSE @]
    /\ last' = Did(IF s # NoUser THEN {ReplaceAdmin} ELSE {})
    /\ UNCHANGED loginFrame

\* handleInputChange of the login form.
Login_handleInputChange(name, value) ==
    /\ LoginView = "form"
    /\ value # Login.formData[name]
    /\ Login' = [Login EXCEPT !.formData[name] = value]
    /\ last' = Did({})
    /\ UNCHANGED loginFrame

\* The eye button.
TogglePassword ==
    /\ LoginView = "form"
    /\ Login' = [Login EXCEPT !.showPassword = ~@]
    /\ last' = Did({})
    /\ UNCHANGED loginFrame

\* handleLogin up to its await.
handleLogin ==
    /\ LoginView = "form"
    /\ LoginFormValid
    /\ Login.signingIn < MaxLogins
    /\ Login' = [Login EXCEPT !.error = NoLoginError, !.loading = TRUE,
                              !.signingIn = @ + 1]
    /\ last' = Did({PreventDefault, SignIn})
    /\ UNCHANGED loginFrame

\* handleLogin after its await with a catch block that leaves loading
\* alone.
SignInResolveKeepsLoading(res) ==
    /\ Login.signingIn > 0
    /\ \/ /\ res = "ok"
          /\ Login' = [Login EXCEPT !.signingIn = @ - 1, !.session = "u1"]
       \/ /\ res = "error"
          /\ Login' = [LoginSet([Login EXCEPT !.error = InvalidCredentials,
                                              !.loading = FALSE])
                          EXCEPT !.signingIn = @ - 1]
       \/ /\ res = "throws"
          /\ Login' = [LoginSet([Login EXCEPT !.error = UnexpectedError])
                          EXCEPT !.signingIn = @ - 1]
    /\ last' = Did({SignInReply(res)})
    /\ UNCHANGED loginFrame

\* handleLogin after its await: an AuthError sets its message and clears
\* loading, an exception sets the generic message and clears loading, a
\* success sets nothing.
SignInResolve(res) ==
    /\ Login.signingIn > 0
    /\ \/ /\ res = "ok"
          /\ Login' = [Login EXCEPT !.signingIn = @ - 1, !.session = "u1"]
       \/ /\ res = "error"
          /\ Login' = [LoginSet([Login EXCEPT !.error = InvalidCredentials,
                                              !.loading = FALSE])
                          EXCEPT !.signingIn = @ - 1]
       \/ /\ res = "throws"
          /\ Login' = [LoginSet([Login EXCEPT !.error = UnexpectedError,
                                              !.loading = FALSE])
                          EXCEPT !.signingIn = @ - 1]
    /\ last' = Did({SignInReply(res)})
    /\ UNCHANGED loginFrame

\* The admin leaves the login page.
LoginUnmount ==
    /\ Login.mounted
    /\ Login' = [Login EXCEPT !.mounted = FALSE]
    /\ last' = Did({})
    /\ UNCHANGED loginFrame

LoginNext ==
    \/ \E throws \in BOOLEAN : LoginCheckSession(throws)
    \/ LoginEffectRerun
    \/ \E s \in Users \cup {NoUser} : LoginAuthStateChange(s)
    \/ \E name \in {"email"}, value \in LoginEmailValues :
          Login_handleInputChange(name, value)
    \/ \E name \in {"password"}, value \in PasswordValues :
          Login_handleInputChange(name, value)
    \/ TogglePassword
    \/ handleLogin
    \/ \E res \in SignInResults : SignInResolve(res)
    \/ LoginUnmount

LoginSpec == LoginInit /\ [][LoginNext]_vars

\* C27: on the login page a sign-in that fails, with an AuthError or with
\* an exception, ends with the error message set, loading cleared, the
\* form with the message on the screen, and no redirect.
C27_FailedSignInShowsError ==
    [][(/\ last'.called \cap {SignInReply("error"), SignInReply("throws")} # {}
        /\ Login.mounted)
          => /\ Login'.error \in {InvalidCredentials, UnexpectedError}
             /\ ~Login'.loading
             /\ LoginView' = "form"
             /\ ReplaceAdmin \notin last'.called
             /\ Login'.mounted]_vars

\* A sign-in has thrown while the spinner was shown: the form is back with
\* the generic message.
C27_Witness ==
    /\ SignInReply("throws") \in last.called
    /\ Login.error = UnexpectedError
    /\ ~Login.loading
    /\ Login.mounted
    /\ Login.formData.email = "ann@example.com"

\* C28: after every Next, Previous, search edit, sort change, tab change and
\* tick of the clock, currentPage lies within 1..max(1, totalPages), where
\* totalPages is the number of filtered events divided by 8, rounded up.
C28_CurrentPageInRange ==
    \A pages \in {Ceil(Len(getFilteredEvents(clock)), eventsPerPage)} :
        /\ currentPage >= 1
        /\ currentPage <= (IF pages > 1 THEN pages ELSE 1)

\* C30: every row the form inserts with plus_one = true has response =
\* "yes", a row inserted with response = "no" has plus_one = false, and the
\* form itself never holds response = "no" together with plus_one = true,
\* whatever selections (the empty placeholder included) and toggles came
\* before.
C30_PlusOneOnlyWithYes ==
    /\ (EventPage.inserted # NoRow /\ EventPage.inserted.newRsvp.plus_one)
          => EventPage.inserted.newRsvp.response = "yes"
    /\ (EventPage.inserted # NoRow /\ EventPage.inserted.newRsvp.response = "no")
          => ~EventPage.inserted.newRsvp.plus_one
    /\ (EventPage.newRsvp.response = "no") => ~EventPage.newRsvp.plus_one

\* A row with a plus one has been handed to the Repository.
C30_Witness ==
    /\ InsertRsvp \in last.called
    /\ EventPage.inserted # NoRow
    /\ EventPage.inserted.newRsvp.plus_one
    /\ EventPage.inserted.newRsvp.response = "yes"

====
